---------------------------- MODULE Spec2Model ----------------------------
(***************************************************************************)
(* Entity resolution and merge engine of auto_generate_json.py.            *)
(*                                                                         *)
(* Text is a sequence of one-character strings, a Python dict is a         *)
(* sequence of [key, val] entries in insertion order (master_players) or   *)
(* a function (name_to_master_key, a CSV row), a float score is the pair   *)
(* <<numerator, denominator>> compared by cross-multiplication.            *)
(***************************************************************************)
EXTENDS Integers, Sequences, FiniteSets, TLC

(***************************************************************************)
(* Bounds of the model.                                                    *)
(***************************************************************************)
\* number of player rows the initial load loop ingests in one run
MaxRows == 3
\* length of the texts normalize is applied to on its own
MaxLen == 3
\* number of candidates best_name_match is applied to on its own
MaxCands == 2
\* number of injury rows the injuries loop merges in one run
MaxInjuries == 2

(***************************************************************************)
(* Characters and text.                                                    *)
(***************************************************************************)
LowerCase == <<"a","b","c","d","e","f","g","h","i","j","k","l","m",
               "n","o","p","q","r","s","t","u","v","w","x","y","z">>
UpperCase == <<"A","B","C","D","E","F","G","H","I","J","K","L","M",
               "N","O","P","Q","R","S","T","U","V","W","X","Y","Z">>
DigitChars == <<"0","1","2","3","4","5","6","7","8","9">>

Range(s) == {s[i] : i \in DOMAIN s}

\* Python None: a value no text equals (every character of a text is one
\* character long)
None == <<"None">>

\* regex class \s
SpaceChars == {" ", "\t"}
IsSpace(c) == c \in SpaceChars

\* regex class \w
WordChars == Range(LowerCase) \cup Range(UpperCase) \cup Range(DigitChars) \cup {"_"}
IsWord(c) == c \in WordChars

\* str.lower() on one character
LowerOf == [c \in Range(UpperCase) |->
              LowerCase[CHOOSE i \in DOMAIN UpperCase : UpperCase[i] = c]]
LowerChar(c) == IF c \in DOMAIN LowerOf THEN LowerOf[c] ELSE c

\* str.lower()
Lower(s) == [i \in DOMAIN s |-> LowerChar(s[i])]

RECURSIVE LStrip(_)
LStrip(s) == IF s # <<>> /\ IsSpace(Head(s)) THEN LStrip(Tail(s)) ELSE s

RECURSIVE RStrip(_)
RStrip(s) ==
  IF s # <<>> /\ IsSpace(s[Len(s)]) THEN RStrip(SubSeq(s, 1, Len(s) - 1)) ELSE s

\* str.strip()
Strip(s) == RStrip(LStrip(s))

\* re.sub(r"\s+", " ", s)
RECURSIVE CollapseSpace(_)
CollapseSpace(s) ==
  IF s = <<>> THEN <<>>
  ELSE IF IsSpace(Head(s)) THEN <<" ">> \o CollapseSpace(LStrip(s))
  ELSE <<Head(s)>> \o CollapseSpace(Tail(s))

\* re.sub(r"[^\w\s]", "", s)
RemovePunct(s) == SelectSeq(s, LAMBDA c : IsWord(c) \/ IsSpace(c))

\* bool(v) of a value that is None or a text
Truthy(v) == v # None /\ v # <<>>

normalize(s) ==
  IF ~Truthy(s) THEN <<>>
  ELSE RemovePunct(CollapseSpace(Strip(Lower(s))))

\* the leading run of non-whitespace characters of s
RECURSIVE FirstWord(_)
FirstWord(s) ==
  IF s = <<>> \/ IsSpace(Head(s)) THEN <<>>
  ELSE <<Head(s)>> \o FirstWord(Tail(s))

\* str.split()
RECURSIVE Split(_)
Split(s) ==
  LET t == LStrip(s) IN
    IF t = <<>> THEN <<>>
    ELSE LET w == FirstWord(t) IN
           <<w>> \o Split(SubSeq(t, Len(w) + 1, Len(t)))

tokens(s) == SelectSeq(Split(normalize(s)), LAMBDA t : t # <<>>)

(***************************************************************************)
(* Similarity scores: a score is <<num, den>> with den > 0.                *)
(***************************************************************************)
Max(a, b) == IF a >= b THEN a ELSE b
Min(a, b) == IF a <= b THEN a ELSE b

\* x > y and x >= y on scores
ScoreGT(x, y) == x[1] * y[2] > y[1] * x[2]
ScoreGE(x, y) == x[1] * y[2] >= y[1] * x[2]

token_overlap_score(a, b) ==
  LET sa == Range(tokens(a))
      sb == Range(tokens(b))
  IN IF sa = {} /\ sb = {} THEN <<0, 1>>
     ELSE <<Cardinality(sa \cap sb), Max(1, Cardinality(sa \cup sb))>>

\* the inner loop with the substitution cost 1 also for equal characters
RECURSIVE LevRow_CostOne(_, _, _, _)
LevRow_CostOne(prev, ai, b, cur) ==
  IF Len(cur) = Len(b) + 1 THEN cur
  ELSE LET j == Len(cur)
           v == Min(Min(prev[j + 1] + 1, cur[j] + 1), prev[j] + 1)
       IN LevRow_CostOne(prev, ai, b, Append(cur, v))

\* the inner loop over j: the row dp[i][0..lb] of the distance table from the
\* row prev = dp[i-1][0..lb]; cur holds dp[i][0..Len(cur)-1]
RECURSIVE LevRow(_, _, _, _)
LevRow(prev, ai, b, cur) ==
  IF Len(cur) = Len(b) + 1 THEN cur
  ELSE LET j == Len(cur)
           cost == IF ai = b[j] THEN 0 ELSE 1
           v == Min(Min(prev[j + 1] + 1, cur[j] + 1), prev[j] + cost)
       IN LevRow(prev, ai, b, Append(cur, v))

\* the last row dp[la] of the table, from row i - 1
RECURSIVE LevRows(_, _, _, _)
LevRows(a, b, i, prev) ==
  IF i > Len(a) THEN prev
  ELSE LET row == LevRow(prev, a[i], b, <<i>>) IN
       \* the row is computed before the next iteration starts
       IF Len(row) = Len(b) + 1 THEN LevRows(a, b, i + 1, row) ELSE row

LevenshteinDistance(a, b) ==
  LevRows(a, b, 1, [j \in 1..(Len(b) + 1) |-> j - 1])[Len(b) + 1]

\* the ratio of two normalized strings
LevRatio(a, b) ==
  IF a = b THEN <<1, 1>>
  ELSE IF Len(a) = 0 \/ Len(b) = 0 THEN <<0, 1>>
  ELSE <<Max(Len(a), Len(b)) - LevenshteinDistance(a, b), Max(Len(a), Len(b))>>

levenshtein_ratio(a, b) == LevRatio(normalize(a), normalize(b))

(***************************************************************************)
(* Entity matcher.  candidates is a dict: a sequence of [key, val] entries *)
(* in iteration order.                                                     *)
(***************************************************************************)
\* default token_thresh = 0.6 and lev_thresh = 0.78
token_thresh_default == <<6, 10>>
lev_thresh_default == <<78, 100>>

\* the exact pass: the key of the first candidate whose normalized name is n
RECURSIVE ExactPass(_, _, _)
ExactPass(n, candidates, i) ==
  IF i > Len(candidates) THEN None
  ELSE IF normalize(candidates[i].val) = n THEN candidates[i].key
  ELSE ExactPass(n, candidates, i + 1)

\* the token-overlap loop: <<best, best_score>> after candidates i..
RECURSIVE TokenPass(_, _, _, _, _)
TokenPass(n, candidates, i, best, best_score) ==
  IF i > Len(candidates) THEN <<best, best_score>>
  ELSE LET tscore == token_overlap_score(n, candidates[i].val) IN
       IF ScoreGT(tscore, best_score)
       THEN TokenPass(n, candidates, i + 1, candidates[i].key, tscore)
       ELSE TokenPass(n, candidates, i + 1, best, best_score)

\* the edit-distance loop: <<best, best_ratio>> after candidates i..
RECURSIVE LevPass(_, _, _, _, _)
LevPass(n, candidates, i, best, best_ratio) ==
  IF i > Len(candidates) THEN <<best, best_ratio>>
  ELSE LET lr == levenshtein_ratio(n, candidates[i].val) IN
       IF ScoreGT(lr, best_ratio)
       THEN LevPass(n, candidates, i + 1, candidates[i].key, lr)
       ELSE LevPass(n, candidates, i + 1, best, best_ratio)

\* the cascade with the best token-overlap candidate accepted whatever its score
MatchCascade_NoThreshold(n, exact, tok, lev, token_thresh, lev_thresh) ==
  IF n = <<>> THEN None
  ELSE IF exact # None THEN exact
  ELSE IF tok[1] # None THEN tok[1]
  ELSE IF ScoreGE(lev[2], lev_thresh) THEN lev[1]
  ELSE None

\* the cascade with the token-overlap score compared by > in place of >=
MatchCascade_StrictToken(n, exact, tok, lev, token_thresh, lev_thresh) ==
  IF n = <<>> THEN None
  ELSE IF exact # None THEN exact
  ELSE IF ScoreGT(tok[2], token_thresh) THEN tok[1]
  ELSE IF ScoreGE(lev[2], lev_thresh) THEN lev[1]
  ELSE None

\* the returns of best_name_match, in order: n is the normalized query, exact
\* the result of the exact pass, tok and lev the <<best, score>> of the two
\* loops (each is computed only when the returns before it are not taken)
MatchCascade(n, exact, tok, lev, token_thresh, lev_thresh) ==
  IF n = <<>> THEN None
  ELSE IF exact # None THEN exact
  ELSE IF ScoreGE(tok[2], token_thresh) THEN tok[1]
  ELSE IF ScoreGE(lev[2], lev_thresh) THEN lev[1]
  ELSE None

\* best_name_match on the normalized query n
MatchNormalized(n, candidates, token_thresh, lev_thresh) ==
  MatchCascade(n, ExactPass(n, candidates, 1),
               TokenPass(n, candidates, 1, None, <<0, 1>>),
               LevPass(n, candidates, 1, None, <<0, 1>>),
               token_thresh, lev_thresh)

best_name_match(name, candidates, token_thresh, lev_thresh) ==
  MatchNormalized(normalize(name), candidates, token_thresh, lev_thresh)

(***************************************************************************)
(* Python dict with insertion order: a sequence of [key, val] entries.     *)
(***************************************************************************)
DictKeys(d) == {d[i].key : i \in DOMAIN d}
DictHas(d, k) == k \in DictKeys(d)
DictGet(d, k) == d[CHOOSE i \in DOMAIN d : d[i].key = k].val
\* d[k] = v
DictPut(d, k, v) ==
  IF DictHas(d, k)
  THEN [i \in DOMAIN d |-> IF d[i].key = k THEN [key |-> k, val |-> v] ELSE d[i]]
  ELSE Append(d, [key |-> k, val |-> v])

\* a dict whose order is never read (name_to_master_key, origins): a function
MapPut(f, k, v) == [x \in DOMAIN f \cup {k} |-> IF x = k THEN v ELSE f[x]]

(***************************************************************************)
(* CSV rows: a function from column names to texts.                        *)
(***************************************************************************)
\* row.get(k)
RowGet(row, k) == IF k \in DOMAIN row THEN row[k] ELSE None

\* a or b
Or(a, b) == IF Truthy(a) THEN a ELSE b

\* {k: v for k, v in row.items() if v not in (None, "")}
NonEmptyItems(row) ==
  [k \in {c \in DOMAIN row : Truthy(row[c])} |-> row[k]]

\* the text of s up to its first comma
RECURSIVE UptoComma(_)
UptoComma(s) ==
  IF s = <<>> \/ Head(s) = "," THEN <<>>
  ELSE <<Head(s)>> \o UptoComma(Tail(s))

\* str.split(",")
RECURSIVE SplitComma(_)
SplitComma(s) ==
  LET w == UptoComma(s) IN
    IF Len(w) = Len(s) THEN <<w>>
    ELSE <<w>> \o SplitComma(SubSeq(s, Len(w) + 2, Len(s)))

\* [x.strip() for x in str(nat).split(",") if x.strip()]
ParseNationality(nat) ==
  LET parts == SplitComma(nat)
      stripped == [i \in DOMAIN parts |-> Strip(parts[i])]
  IN SelectSeq(stripped, LAMBDA x : x # <<>>)

(***************************************************************************)
(* Canonical player structure.                                             *)
(***************************************************************************)
make_blank_player ==
  [identitas_dasar |->
     [player_id |-> <<>>, nama_lengkap |-> <<>>, nama_panggilan |-> <<>>,
      tanggal_lahir |-> <<>>, usia |-> <<>>,
      tempat_lahir |-> [kota |-> <<>>, negara |-> <<>>],
      kewarganegaraan |-> <<>>, tinggi_badan_cm |-> <<>>,
      berat_badan_kg |-> <<>>, posisi_utama |-> <<>>,
      posisi_alternatif |-> <<>>, kaki_dominan |-> <<>>,
      status_pemain |-> <<>>, klub_saat_ini |-> <<>>,
      nomor_punggung |-> <<>>, tanggal_gabung |-> <<>>,
      kontrak_mulai |-> <<>>, kontrak_berakhir |-> <<>>, agen |-> <<>>,
      media_sosial |-> <<>>],
   nilai_pasar |->
     [nilai_terkini_eur |-> <<>>, update_terakhir |-> <<>>,
      riwayat_nilai |-> <<>>, nilai_tertinggi_eur |-> <<>>],
   kontrak |->
     [klub |-> <<>>, liga |-> <<>>, mulai |-> <<>>, berakhir |-> <<>>,
      status |-> <<>>, klausul_rilis |-> <<>>, gaji_per_musim |-> <<>>],
   transfer |-> <<>>,
   cedera |-> <<>>,
   statistik_performa |-> <<>>,
   karier_internasional |-> [negara |-> <<>>, levels |-> <<>>],
   prestasi |-> <<>>,
   taktikal |-> [formasi |-> <<>>, posisi |-> <<>>, kontribusi_formasi |-> <<>>],
   tren_karier |-> <<>>,
   sumber_data |-> [origins |-> <<>>]]

(***************************************************************************)
(* Merge engine.                                                           *)
(***************************************************************************)
\* str(n) of a natural number
RECURSIVE Decimal(_)
Decimal(n) ==
  IF n < 10 THEN <<DigitChars[n + 1]>>
  ELSE Decimal(n \div 10) \o <<DigitChars[(n % 10) + 1]>>

\* re.sub(r"[^\w]+", "_", s)
RECURSIVE Slugify(_)
Slugify(s) ==
  IF s = <<>> THEN <<>>
  ELSE IF IsWord(Head(s)) THEN <<Head(s)>> \o Slugify(Tail(s))
  ELSE IF Len(s) > 1 /\ ~IsWord(s[2]) THEN Slugify(Tail(s))
  ELSE <<"_">> \o Slugify(Tail(s))

\* the slug taken as it is, without the loop that makes it unique
UniqueSlug_NoLoop(master, base, slug, i) == slug

\* the loop "while slug in master_players: i += 1; slug = f'{base}_{i}'"
RECURSIVE UniqueSlug(_, _, _, _)
UniqueSlug(master, base, slug, i) ==
  IF DictHas(master, slug)
  THEN UniqueSlug(master, base, base \o <<"_">> \o Decimal(i + 1), i + 1)
  ELSE slug

\* the key of a new entity for a row that matched nothing
NewSlug(master, normalized) ==
  LET slug == Or(Slugify(normalized),
                 <<"p","l","a","y","e","r","_">> \o Decimal(Len(master) + 1))
  IN UniqueSlug(master, slug, slug, 1)

\* the dict handed to best_name_match: key -> nama_lengkap
CandidateNames(master) ==
  [i \in DOMAIN master |->
     [key |-> master[i].key, val |-> master[i].val.identitas_dasar.nama_lengkap]]

\* pid and pname of a row
RowId(row) == Or(Or(RowGet(row, "player_id"), RowGet(row, "id")), <<>>)
RowName(row) == Strip(Or(Or(RowGet(row, "player_name"), RowGet(row, "name")), <<>>))

\* the record of a call of best_name_match
NoMatchCall == [called |-> FALSE, name |-> <<>>, candidates |-> <<>>, result |-> None]

\* the call of best_name_match add_or_merge_player makes, with its result
MatchCall(pname, cands) ==
  [called |-> TRUE, name |-> pname, candidates |-> cands,
   result |-> best_name_match(pname, cands, token_thresh_default, lev_thresh_default)]

\* the branches of the identification with the name index consulted before the id
ResolveBranches_NameFirst(master, names, pid, normalized, bnm) ==
  IF normalized \in DOMAIN names
    THEN [key |-> names[normalized], created |-> FALSE, bnm |-> NoMatchCall]
  ELSE IF Truthy(pid) /\ DictHas(master, pid)
    THEN [key |-> pid, created |-> FALSE, bnm |-> NoMatchCall]
  ELSE IF Truthy(pid)
    THEN [key |-> pid, created |-> TRUE, bnm |-> NoMatchCall]
  ELSE IF Truthy(bnm.result)
    THEN [key |-> bnm.result, created |-> FALSE, bnm |-> bnm]
  ELSE [key |-> NewSlug(master, normalized), created |-> TRUE, bnm |-> bnm]

\* the branches of the identification of a row with id pid and lowercased name
\* normalized: the key it resolves to, whether an entity is created for it, and
\* the call of best_name_match made on the way (bnm, made only in the last two
\* branches)
ResolveBranches(master, names, pid, normalized, bnm) ==
  IF Truthy(pid) /\ DictHas(master, pid)
    THEN [key |-> pid, created |-> FALSE, bnm |-> NoMatchCall]
  ELSE IF Truthy(pid)
    THEN [key |-> pid, created |-> TRUE, bnm |-> NoMatchCall]
  ELSE IF normalized \in DOMAIN names
    THEN [key |-> names[normalized], created |-> FALSE, bnm |-> NoMatchCall]
  ELSE IF Truthy(bnm.result)
    THEN [key |-> bnm.result, created |-> FALSE, bnm |-> bnm]
  ELSE [key |-> NewSlug(master, normalized), created |-> TRUE, bnm |-> bnm]

\* the identification of a row with id pid and name pname
ResolveNamed(master, names, pid, pname) ==
  ResolveBranches(master, names, pid, Strip(Lower(pname)),
                  MatchCall(pname, CandidateNames(master)))

\* the identification of a row
ResolveKey(master, names, row) ==
  ResolveNamed(master, names, RowId(row), RowName(row))

\* set_if_present(k, dest, src_key)
set_if_present(dest, k, row, src_key) ==
  LET v == RowGet(row, src_key) IN
    IF v # None /\ v # <<>> THEN [dest EXCEPT ![k] = v] ELSE dest

\* the twelve set_if_present calls and the nationality block on identitas_dasar
MergeIdentitas(idd, row) ==
  LET d1 == set_if_present(idd, "nama_lengkap", row, "player_name")
      d2 == set_if_present(d1, "nama_panggilan", row, "known_as")
      d3 == set_if_present(d2, "tanggal_lahir", row, "date_of_birth")
      d4 == set_if_present(d3, "usia", row, "age")
      d5 == set_if_present(d4, "tinggi_badan_cm", row, "height")
      d6 == set_if_present(d5, "berat_badan_kg", row, "weight")
      d7 == set_if_present(d6, "posisi_utama", row, "position")
      d8 == set_if_present(d7, "kaki_dominan", row, "foot")
      d9 == set_if_present(d8, "klub_saat_ini", row, "current_club")
      d10 == set_if_present(d9, "nomor_punggung", row, "shirt_number")
      d11 == set_if_present(d10, "kontrak_mulai", row, "contract_start")
      d12 == set_if_present(d11, "kontrak_berakhir", row, "contract_expiry")
      nat == Or(RowGet(row, "citizenship"), RowGet(row, "nationality"))
  IN IF Truthy(nat)
     THEN [d12 EXCEPT !.kewarganegaraan = ParseNationality(nat)]
     ELSE d12

\* the market value block on nilai_pasar
MergeNilaiPasar(np, row) ==
  LET mv == Or(RowGet(row, "market_value_in_eur"), RowGet(row, "market_value"))
      lu == RowGet(row, "last_market_value_update")
      n1 == IF Truthy(mv) THEN [np EXCEPT !.nilai_terkini_eur = mv] ELSE np
  IN IF Truthy(lu) THEN [n1 EXCEPT !.update_terakhir = lu] ELSE n1

\* orig.setdefault(srcname, []).append({non-empty items of row})
MergeOrigins(origins, row) ==
  LET srcname == Or(Or(RowGet(row, "_source_file"), RowGet(row, "source_file")),
                    <<"u","n","k","n","o","w","n">>)
      old == IF srcname \in DOMAIN origins THEN origins[srcname] ELSE <<>>
  IN MapPut(origins, srcname, Append(old, NonEmptyItems(row)))

\* the merge of a row into the record target
MergeRow(target, row) ==
  [target EXCEPT
     !.identitas_dasar = MergeIdentitas(@, row),
     !.nilai_pasar = MergeNilaiPasar(@, row),
     !.sumber_data.origins = MergeOrigins(@, row)]

\* the name registered under its lowercased, stripped form, as it is looked up
RegisterName_Raw(names, target, key) ==
  IF Truthy(target.identitas_dasar.nama_lengkap)
  THEN MapPut(names, Strip(Lower(target.identitas_dasar.nama_lengkap)), key)
  ELSE names

\* name_to_master_key after the call: the target's name is registered
RegisterName(names, target, key) ==
  IF Truthy(target.identitas_dasar.nama_lengkap)
  THEN MapPut(names, normalize(target.identitas_dasar.nama_lengkap), key)
  ELSE names

\* the store after the blank record of a created entity is stored
CreateEntity(master, r, pid) ==
  IF r.created
  THEN DictPut(master, r.key, [make_blank_player EXCEPT !.identitas_dasar.player_id = pid])
  ELSE master

\* the store after target is merged when all records share one sumber_data
\* dict, as they would if the blank record were built once and reused
StoreMerged_Aliased(master, names, r, target) ==
  [master |-> [i \in DOMAIN DictPut(master, r.key, target) |->
                 [key |-> DictPut(master, r.key, target)[i].key,
                  val |-> [DictPut(master, r.key, target)[i].val
                             EXCEPT !.sumber_data = target.sumber_data]]],
   names |-> RegisterName(names, target, r.key),
   key |-> r.key,
   created |-> r.created,
   bnm |-> r.bnm]

\* the store, the name index and the result after target is merged
StoreMerged(master, names, r, target) ==
  [master |-> DictPut(master, r.key, target),
   names |-> RegisterName(names, target, r.key),
   key |-> r.key,
   created |-> r.created,
   bnm |-> r.bnm]

\* the merge of the row into the record under the resolved key
MergeResolved(master, names, r, row) ==
  StoreMerged(master, names, r, MergeRow(DictGet(master, r.key), row))

\* the call once the row is identified as r
AddResolved(master, names, row, r) ==
  MergeResolved(CreateEntity(master, r, RowId(row)), names, r, row)

\* add_or_merge_player(row): the store after the call, the returned key, and
\* what the call did on the way
add_or_merge_player(master, names, row) ==
  AddResolved(master, names, row, ResolveKey(master, names, row))

(***************************************************************************)
(* Texts and player rows of the runs explored.                             *)
(***************************************************************************)
T_7 == <<"7">>
T_LionelMessi == <<"L","i","o","n","e","l"," ","M","e","s","s","i">>
T_LMessi == <<"L","."," ","M","e","s","s","i">>
T_CristianoRonaldo == <<"C","r","i","s","t","i","a","n","o"," ","R","o","n","a","l","d","o">>
T_InterMiami == <<"I","n","t","e","r"," ","M","i","a","m","i">>
T_AlNassr == <<"A","l"," ","N","a","s","s","r">>
T_12 == <<"1","2">>
T_30 == <<"3","0">>
T_JohnSmith == <<"J","o","h","n"," ","S","m","i","t","h">>
T_JonSmith == <<"J","o","n"," ","S","m","i","t","h">>
T_abcd == <<"a"," ","b"," ","c"," ","d">>
T_ecba == <<"e"," ","c"," ","b"," ","a">>
T_Dash == <<"-">>
T_Comma == <<",">>
T_ArgentinaSpain == <<"A","r","g","e","n","t","i","n","a",","," ","S","p","a","i","n">>
T_GK == <<"G","K">>
T_player_profiles == <<"p","l","a","y","e","r","_","p","r","o","f","i","l","e","s">>

\* the three rows of the end-to-end scenario, columns as the scenario names them
RowA == ("id" :> T_7 @@ "name" :> T_LionelMessi @@ "club" :> T_InterMiami)
RowB == ("id" :> <<>> @@ "name" :> T_LMessi @@ "goals" :> T_12)
RowC == ("id" :> <<>> @@ "name" :> T_CristianoRonaldo @@ "club" :> T_AlNassr)
\* the same three rows under the columns add_or_merge_player merges
RowA2 == ("player_id" :> T_7 @@ "player_name" :> T_LionelMessi
          @@ "current_club" :> T_InterMiami @@ "citizenship" :> T_ArgentinaSpain)
RowB2 == ("player_id" :> <<>> @@ "player_name" :> T_LMessi @@ "goals" :> T_12)
RowC2 == ("player_id" :> <<>> @@ "player_name" :> T_CristianoRonaldo
          @@ "current_club" :> T_AlNassr)
\* an id already seen under an unrelated name, a nationality without a country
RowD == ("player_id" :> T_7 @@ "player_name" :> T_CristianoRonaldo
         @@ "citizenship" :> T_Comma @@ "current_club" :> <<>>)
\* names one edit apart
RowE == ("player_name" :> T_JohnSmith @@ "age" :> T_30)
RowF == ("player_name" :> T_JonSmith)
\* names sharing three tokens of five
RowG == ("player_name" :> T_abcd)
RowH == ("name" :> T_ecba @@ "player_name" :> T_ecba)
\* a row with neither id nor name
RowJ == ("player_id" :> <<>> @@ "player_name" :> <<>> @@ "age" :> T_30)
\* a name that is punctuation only
RowK == ("player_name" :> T_Dash @@ "position" :> T_GK)

Rows == {RowA, RowB, RowC, RowA2, RowB2, RowC2, RowD, RowE, RowF, RowG, RowH,
         RowJ, RowK}

(***************************************************************************)
(* State.                                                                  *)
(***************************************************************************)
VARIABLES
  master_players,      \* dict: key -> player record, in insertion order
  name_to_master_key,  \* dict: normalized name -> key
  players_rows,        \* the rows the initial load loop has ingested so far
  returned,            \* the key add_or_merge_player returned for each of them
  pre,                 \* master_players and name_to_master_key before the last call
  last,                \* what the last call did: created, bnm
  norm,                \* the call of normalize made on its own: s, result
  candidates,          \* the dict built before the injuries loop: defined, dict
  injuries_rows,       \* the rows the injuries loop has merged so far
  target_keys          \* the target_key of each of them, None when it had none

vars == <<master_players, name_to_master_key, players_rows, returned, pre, last, norm,
          candidates, injuries_rows, target_keys>>

\* no call of normalize on its own
NoNormCall == [called |-> FALSE, s |-> <<>>, result |-> None]

Init ==
  /\ master_players = <<>>
  /\ name_to_master_key = <<>>
  /\ players_rows = <<>>
  /\ returned = <<>>
  /\ pre = [master |-> <<>>, names |-> <<>>]
  /\ last = [created |-> FALSE, bnm |-> NoMatchCall]
  /\ norm = NoNormCall
  /\ candidates = [defined |-> FALSE, dict |-> <<>>]
  /\ injuries_rows = <<>>
  /\ target_keys = <<>>

\* one iteration of the initial load loop: the row is annotated with its source
\* and handed to add_or_merge_player
Ingest(row) ==
  /\ ~candidates.defined
  /\ Len(players_rows) < MaxRows
  /\ LET r == MapPut(row, "_source_file",
                     Or(RowGet(row, "_source_file"), T_player_profiles))
     IN \E res \in {add_or_merge_player(master_players, name_to_master_key, r)} :
        /\ master_players' = res.master
        /\ name_to_master_key' = res.names
        /\ returned' = Append(returned, res.key)
        /\ last' = [created |-> res.created, bnm |-> res.bnm]
  /\ players_rows' = Append(players_rows, row)
  /\ pre' = [master |-> master_players, names |-> name_to_master_key]
  /\ UNCHANGED <<norm, candidates, injuries_rows, target_keys>>

Next == \E row \in Rows : Ingest(row)

Spec == Init /\ [][Next]_vars

(***************************************************************************)
(* normalize on its own, applied to every text of at most MaxLen           *)
(* characters over TextChars.                                              *)
(***************************************************************************)
\* an upper-case and a lower-case letter, the two kinds of whitespace, a
\* punctuation character
TextChars == {"A", "b", " ", "\t", "-"}

Texts == UNION {[1..n -> TextChars] : n \in 0..MaxLen}

Normalize(s) ==
  /\ ~norm.called
  /\ norm' = [called |-> TRUE, s |-> s, result |-> normalize(s)]
  /\ UNCHANGED <<master_players, name_to_master_key, players_rows, returned, pre, last,
                 candidates, injuries_rows, target_keys>>

NextNormalize == \E s \in Texts : Normalize(s)

SpecNormalize == Init /\ [][NextNormalize]_vars

(***************************************************************************)
(* best_name_match on its own, with the default thresholds, applied to     *)
(* every query of MatchNames and every dict of at most MaxCands            *)
(* candidates named from MatchNames.                                       *)
(***************************************************************************)
T_JonathanSmithson ==
  <<"J","o","n","a","t","h","a","n"," ","S","m","i","t","h","s","o","n">>

MatchNames == {T_JonSmith, T_JohnSmith, T_JonathanSmithson, T_LMessi,
               T_LionelMessi, T_abcd, T_ecba, T_Dash}

\* the dict {"1": names[1], "2": names[2], ...}
CandidateDict(names) ==
  [i \in DOMAIN names |-> [key |-> Decimal(i), val |-> names[i]]]

Match(name, names) ==
  /\ ~last.bnm.called
  /\ \E bnm \in {MatchCall(name, CandidateDict(names))} :
       last' = [created |-> FALSE, bnm |-> bnm]
  /\ UNCHANGED <<master_players, name_to_master_key, players_rows, returned, pre, norm,
                 candidates, injuries_rows, target_keys>>

NextMatch ==
  \E name \in MatchNames :
    \E n \in 0..MaxCands : \E names \in [1..n -> MatchNames] : Match(name, names)

SpecMatch == Init /\ [][NextMatch]_vars

(***************************************************************************)
(* The injuries phase: the initial load loop, then the candidate map and   *)
(* the injuries loop.  teams_rows is empty (no team_details file), so the  *)
(* club enrichment between the two loops changes nothing.                  *)
(***************************************************************************)
\* inj.get(k, default)
GetDefault(row, k, default) == IF k \in DOMAIN row THEN row[k] ELSE default

\* the entry appended to cedera
InjuryEntry(inj) ==
  [injury |-> GetDefault(inj, "injury", GetDefault(inj, "type", <<>>)),
   start |-> GetDefault(inj, "injury_start", GetDefault(inj, "start_date", <<>>)),
   end |-> GetDefault(inj, "injury_end", GetDefault(inj, "end_date", <<>>)),
   days |-> GetDefault(inj, "days", <<>>),
   games_missed |-> GetDefault(inj, "games_missed", GetDefault(inj, "matches_missed", <<>>)),
   club |-> GetDefault(inj, "club", GetDefault(inj, "team", <<>>)),
   source |-> GetDefault(inj, "url", <<>>)]

\* pid and pname of an injury row
InjuryId(inj) == Or(RowGet(inj, "player_id"), <<>>)
InjuryName(inj) == Strip(Or(Or(RowGet(inj, "player_name"), RowGet(inj, "name")), <<>>))

\* the branches of the identification with the name index consulted before the id
InjuryBranches_NameFirst(master, names, cands, pid, pname) ==
  IF Truthy(pname) /\ normalize(pname) \in DOMAIN names THEN names[normalize(pname)]
  ELSE IF Truthy(pid) /\ DictHas(master, pid) THEN pid
  ELSE IF Truthy(pname)
    THEN best_name_match(pname, cands, token_thresh_default, lev_thresh_default)
  ELSE None

\* target_key of an injury row with id pid and name pname
InjuryBranches(master, names, cands, pid, pname) ==
  IF Truthy(pid) /\ DictHas(master, pid) THEN pid
  ELSE IF Truthy(pname)
    THEN IF normalize(pname) \in DOMAIN names THEN names[normalize(pname)]
         ELSE best_name_match(pname, cands, token_thresh_default, lev_thresh_default)
  ELSE None

InjuryTarget(master, names, cands, inj) ==
  InjuryBranches(master, names, cands, InjuryId(inj), InjuryName(inj))

\* master_players[target_key]["cedera"].append({...}) if target_key
AppendInjury(master, target_key, inj) ==
  IF Truthy(target_key)
  THEN DictPut(master, target_key,
               [DictGet(master, target_key) EXCEPT !.cedera = Append(@, InjuryEntry(inj))])
  ELSE master

T_99 == <<"9","9">>
T_LIONELMESSI == <<"L","I","O","N","E","L"," ","M","E","S","S","I">>
T_Knee == <<"K","n","e","e">>
T_Hamstring == <<"H","a","m","s","t","r","i","n","g">>

\* an id of the store under the name of another player
InjA == ("player_id" :> T_7 @@ "player_name" :> T_CristianoRonaldo @@ "injury" :> T_Knee)
\* a name of the name index, in capitals
InjB == ("player_name" :> T_LIONELMESSI @@ "injury" :> T_Knee @@ "days" :> T_12)
\* a name one edit from a canonical name, under the alternative columns
InjC == ("name" :> T_JonSmith @@ "type" :> T_Hamstring @@ "team" :> T_AlNassr)
\* an unknown id and an abbreviated name
InjD == ("player_id" :> T_99 @@ "player_name" :> T_LMessi @@ "injury" :> T_Hamstring)
\* neither id nor name
InjE == ("player_id" :> <<>> @@ "player_name" :> <<>> @@ "injury" :> T_Knee)

InjuryRows == {InjA, InjB, InjC, InjD, InjE}

\* the player rows of the runs with an injuries phase
InjuryPlayerRows == {RowA2, RowC2, RowE, RowK}

\* candidates = {k: v["identitas_dasar"].get("nama_lengkap", "") ...}
BuildCandidates ==
  /\ ~candidates.defined
  /\ candidates' = [defined |-> TRUE, dict |-> CandidateNames(master_players)]
  /\ UNCHANGED <<master_players, name_to_master_key, players_rows, returned, pre, last,
                 norm, injuries_rows, target_keys>>

\* one iteration of the injuries loop
MergeInjury(inj) ==
  /\ candidates.defined
  /\ Len(injuries_rows) < MaxInjuries
  /\ \E target_key \in {InjuryTarget(master_players, name_to_master_key, candidates.dict, inj)} :
       /\ master_players' = AppendInjury(master_players, target_key, inj)
       /\ target_keys' = Append(target_keys, target_key)
  /\ injuries_rows' = Append(injuries_rows, inj)
  /\ pre' = [master |-> master_players, names |-> name_to_master_key]
  /\ UNCHANGED <<name_to_master_key, players_rows, returned, last, norm, candidates>>

NextInjuries ==
  \/ \E row \in InjuryPlayerRows : Ingest(row)
  \/ BuildCandidates
  \/ \E inj \in InjuryRows : MergeInjury(inj)

SpecInjuries == Init /\ [][NextInjuries]_vars


(***************************************************************************)
(* Vocabulary of the properties.                                           *)
(***************************************************************************)
\* the number of rows ingested, the last of them, the key returned for it
N == Len(players_rows)
LastRow == players_rows[N]
LastKey == returned[N]

\* the record stored under key k now, and before the last call
Entity(k) == DictGet(master_players, k)
PreEntity(k) == DictGet(pre.master, k)

\* the id hint of a row: player_id, else id
IdOf(row) ==
  IF "player_id" \in DOMAIN row /\ row["player_id"] # <<>> THEN row["player_id"]
  ELSE IF "id" \in DOMAIN row /\ row["id"] # <<>> THEN row["id"]
  ELSE <<>>

\* the display name of a row: the first non-empty of player_name and name
DisplayNameOf(row) ==
  IF "player_name" \in DOMAIN row /\ row["player_name"] # <<>> THEN row["player_name"]
  ELSE IF "name" \in DOMAIN row /\ row["name"] # <<>> THEN row["name"]
  ELSE <<>>

\* the provenance list of a record under the source tag of the load loop
Provenance(p) ==
  IF T_player_profiles \in DOMAIN p.sumber_data.origins
  THEN p.sumber_data.origins[T_player_profiles]
  ELSE <<>>

\* a record with its provenance left out
Fields(p) == [p EXCEPT !.sumber_data.origins = <<>>]

T_l_messi == <<"l","_","m","e","s","s","i">>
T_cristiano_ronaldo ==
  <<"c","r","i","s","t","i","a","n","o","_","r","o","n","a","l","d","o">>
T_player_ == <<"p","l","a","y","e","r","_">>

\* the row r is kept in the provenance of the record p
InProvenance(p, r) ==
  \E i \in DOMAIN Provenance(p) :
    \A c \in DOMAIN r : r[c] # <<>> =>
      c \in DOMAIN Provenance(p)[i] /\ Provenance(p)[i][c] = r[c]

(***************************************************************************)
(* C1.  End-to-end scenario.                                               *)
(***************************************************************************)
\* C1 as claimed: from an empty store, ingesting A, B, C (under the columns of
\* the scenario, or under the columns the merge reads) leaves exactly two
\* entities: "7", into which A and B were merged, and a new one for C.
C1_TwoEntities ==
  (players_rows = <<RowA, RowB, RowC>> \/ players_rows = <<RowA2, RowB2, RowC2>>)
    => /\ Len(master_players) = 2
       /\ returned[1] = T_7 /\ returned[2] = T_7 /\ returned[3] # T_7
       /\ InProvenance(Entity(T_7), players_rows[2])

\* C1 as amended: the scenario leaves exactly three entities, keyed "7",
\* "l_messi" and "cristiano_ronaldo", in this order; B is not merged into "7"
\* but creates "l_messi", whose provenance alone holds goals = "12".  Under
\* the columns player_id/player_name/current_club the club of "7" is "Inter
\* Miami" and the club of "cristiano_ronaldo" is "Al Nassr"; under the
\* columns id/name/club no name and no club is stored in any field and the
\* name index stays empty.
C1_ThreeEntities ==
  /\ (players_rows = <<RowA, RowB, RowC>> \/ players_rows = <<RowA2, RowB2, RowC2>>)
       => /\ returned = <<T_7, T_l_messi, T_cristiano_ronaldo>>
          /\ [i \in DOMAIN master_players |-> master_players[i].key] = returned
          /\ InProvenance(Entity(T_l_messi), players_rows[2])
          /\ ~InProvenance(Entity(T_7), players_rows[2])
  /\ players_rows = <<RowA2, RowB2, RowC2>>
       => /\ Entity(T_7).identitas_dasar.klub_saat_ini = T_InterMiami
          /\ Entity(T_7).identitas_dasar.nama_lengkap = T_LionelMessi
          /\ Entity(T_l_messi).identitas_dasar.klub_saat_ini = <<>>
          /\ Entity(T_cristiano_ronaldo).identitas_dasar.klub_saat_ini = T_AlNassr
  /\ players_rows = <<RowA, RowB, RowC>>
       => /\ \A i \in DOMAIN master_players :
               /\ master_players[i].val.identitas_dasar.klub_saat_ini = <<>>
               /\ master_players[i].val.identitas_dasar.nama_lengkap = <<>>
          /\ name_to_master_key = <<>>

\* the scenario has run, under the columns the merge reads
C1_Witness ==
  /\ players_rows = <<RowA2, RowB2, RowC2>>
  /\ Len(master_players) = 3

(***************************************************************************)
(* C2.  Id priority.                                                       *)
(***************************************************************************)
\* C2: a row whose id is non-empty and already a key of the store is merged
\* into the entity under that key, which is the key returned, whatever its
\* name; no entity is created and no other entity changes.
C2_IdPriority ==
  (N >= 1 /\ IdOf(LastRow) # <<>> /\ DictHas(pre.master, IdOf(LastRow)))
    => /\ LastKey = IdOf(LastRow)
       /\ ~last.created
       /\ ~last.bnm.called
       /\ Len(master_players) = Len(pre.master)
       /\ \A i \in DOMAIN pre.master :
            /\ master_players[i].key = pre.master[i].key
            /\ master_players[i].key # IdOf(LastRow)
                 => master_players[i].val = pre.master[i].val
       /\ Len(Provenance(Entity(LastKey))) = Len(Provenance(PreEntity(LastKey))) + 1
       /\ InProvenance(Entity(LastKey), LastRow)

\* a row with a known id was ingested whose name the name index maps to
\* another entity
C2_Witness ==
  /\ N >= 1 /\ IdOf(LastRow) # <<>> /\ DictHas(pre.master, IdOf(LastRow))
  /\ Strip(Lower(Strip(DisplayNameOf(LastRow)))) \in DOMAIN pre.names
  /\ pre.names[Strip(Lower(Strip(DisplayNameOf(LastRow))))] # IdOf(LastRow)
  /\ LastKey = IdOf(LastRow)

(***************************************************************************)
(* C3.  Exact name before fuzzy.                                           *)
(***************************************************************************)
\* C3 as claimed: two rows without id whose display names normalize to the same
\* non-empty string, ingested one after the other, resolve to the same entity.
C3_SameNameSameEntity ==
  (/\ N >= 2
   /\ IdOf(players_rows[N - 1]) = <<>> /\ IdOf(LastRow) = <<>>
   /\ normalize(DisplayNameOf(LastRow)) # <<>>
   /\ normalize(DisplayNameOf(players_rows[N - 1])) = normalize(DisplayNameOf(LastRow)))
    => returned[N - 1] = returned[N]

(***************************************************************************)
(* C4.  Threshold boundary of best_name_match.                             *)
(***************************************************************************)
\* C4: when no candidate matches the query exactly, the result is the first
\* candidate of maximal token-overlap score if that score is >= 0.6; otherwise
\* the first candidate of maximal edit-distance ratio if that ratio is
\* >= 0.78; otherwise no match.
C4_ThresholdBoundary ==
  LET c == last.bnm.candidates
      n == normalize(last.bnm.name)
      tok(i) == token_overlap_score(n, c[i].val)
      lev(i) == levenshtein_ratio(n, c[i].val)
      IsTokBest(i) == /\ \A j \in DOMAIN c : ScoreGE(tok(i), tok(j))
                      /\ \A j \in 1..(i - 1) : ScoreGT(tok(i), tok(j))
      IsLevBest(i) == /\ \A j \in DOMAIN c : ScoreGE(lev(i), lev(j))
                      /\ \A j \in 1..(i - 1) : ScoreGT(lev(i), lev(j))
  IN (last.bnm.called /\ \A i \in DOMAIN c : normalize(c[i].val) # n)
       => IF \E i \in DOMAIN c : 10 * tok(i)[1] >= 6 * tok(i)[2]
          THEN \E i \in DOMAIN c : IsTokBest(i) /\ last.bnm.result = c[i].key
          ELSE IF \E i \in DOMAIN c : 100 * lev(i)[1] >= 78 * lev(i)[2]
          THEN \E i \in DOMAIN c : IsLevBest(i) /\ last.bnm.result = c[i].key
          ELSE last.bnm.result = None

\* best_name_match returned a candidate whose token-overlap score is exactly
\* 3/5 and whose edit-distance ratio is below 0.78
C4_Witness ==
  /\ last.bnm.called
  /\ last.bnm.result # None
  /\ \E i \in DOMAIN last.bnm.candidates :
       /\ last.bnm.candidates[i].key = last.bnm.result
       /\ token_overlap_score(normalize(last.bnm.name), last.bnm.candidates[i].val) = <<3, 5>>
       /\ ~ScoreGE(levenshtein_ratio(normalize(last.bnm.name), last.bnm.candidates[i].val),
                   <<78, 100>>)

(***************************************************************************)
(* C5.  Non-clobbering merge.                                              *)
(***************************************************************************)
\* the merged fields of identitas_dasar, each with its source columns
IdentitasSources ==
  { <<"nama_lengkap", {"player_name"}>>, <<"nama_panggilan", {"known_as"}>>,
    <<"tanggal_lahir", {"date_of_birth"}>>, <<"usia", {"age"}>>,
    <<"tinggi_badan_cm", {"height"}>>, <<"berat_badan_kg", {"weight"}>>,
    <<"posisi_utama", {"position"}>>, <<"kaki_dominan", {"foot"}>>,
    <<"klub_saat_ini", {"current_club"}>>, <<"nomor_punggung", {"shirt_number"}>>,
    <<"kontrak_mulai", {"contract_start"}>>,
    <<"kontrak_berakhir", {"contract_expiry"}>>,
    <<"kewarganegaraan", {"citizenship", "nationality"}>> }

\* the merged fields of nilai_pasar, each with its source columns
NilaiPasarSources ==
  { <<"nilai_terkini_eur", {"market_value_in_eur", "market_value"}>>,
    <<"update_terakhir", {"last_market_value_update"}>> }

\* none of the columns cols holds a non-empty value in the row
NoValue(row, cols) == \A c \in cols : c \notin DOMAIN row \/ row[c] = <<>>

\* a populated field of the panel old is populated in new, and unchanged when
\* the row has no value for it
KeepsFields(old, new, row, sources) ==
  \A f \in sources :
    old[f[1]] # <<>>
      => /\ new[f[1]] # <<>>
         /\ NoValue(row, f[2]) => new[f[1]] = old[f[1]]

\* C5 as claimed: a merged field that holds a non-empty value is left unchanged
\* by a row whose source column is absent or empty, and never returns to empty.
C5_NonClobbering ==
  N >= 1 =>
    \A i \in DOMAIN pre.master :
      LET old == pre.master[i].val
          new == Entity(pre.master[i].key)
      IN /\ KeepsFields(old.identitas_dasar, new.identitas_dasar, LastRow,
                        IdentitasSources)
         /\ KeepsFields(old.nilai_pasar, new.nilai_pasar, LastRow, NilaiPasarSources)

(***************************************************************************)
(* C6.  Idempotence.                                                       *)
(***************************************************************************)
\* C6 as claimed, for the rows that carry an id or a name with a letter or a
\* digit in it: ingesting the row a second time right after the first resolves
\* to the same key, creates no entity and changes no field of any entity; the
\* provenance of that entity grows by one entry.
C6_Idempotent ==
  (/\ N >= 2
   /\ players_rows[N - 1] = LastRow
   /\ (IdOf(LastRow) # <<>> \/ normalize(DisplayNameOf(LastRow)) # <<>>))
    => /\ returned[N] = returned[N - 1]
       /\ ~last.created
       /\ Len(master_players) = Len(pre.master)
       /\ \A i \in DOMAIN pre.master :
            /\ master_players[i].key = pre.master[i].key
            /\ Fields(master_players[i].val) = Fields(pre.master[i].val)
            /\ Len(Provenance(master_players[i].val))
                 = Len(Provenance(pre.master[i].val))
                     + (IF master_players[i].key = LastKey THEN 1 ELSE 0)

(***************************************************************************)
(* C7.  Uniqueness of entity ids.                                          *)
(***************************************************************************)
\* the key a row without id that matched nothing is stored under: the slug of
\* its name, or player_<n>, with the least suffix _2, _3, ... that is free
IsFreshSlug(key, master, row) ==
  LET normalized == Strip(Lower(Strip(DisplayNameOf(row))))
      base == IF Slugify(normalized) # <<>> THEN Slugify(normalized)
              ELSE T_player_ \o Decimal(Len(master) + 1)
      Suffixed(i) == IF i = 1 THEN base ELSE base \o <<"_">> \o Decimal(i)
  IN \E i \in 1..(Len(master) + 1) :
       /\ key = Suffixed(i)
       /\ \A j \in 1..(i - 1) : DictHas(master, Suffixed(j))

\* C7: no two entities share a key; a created entity is stored under a key that
\* was free (the absent id hint, or the slug with the least free suffix, found
\* within as many steps as there are entities); no entity is replaced or
\* removed by a call and a creation leaves every other entity as it was.
C7_UniqueIds ==
  /\ \A i, j \in DOMAIN master_players :
       master_players[i].key = master_players[j].key => i = j
  /\ Len(master_players) >= Len(pre.master)
  /\ \A i \in DOMAIN pre.master : master_players[i].key = pre.master[i].key
  /\ (N >= 1 /\ last.created)
       => /\ ~DictHas(pre.master, LastKey)
          /\ Len(master_players) = Len(pre.master) + 1
          /\ master_players[Len(master_players)].key = LastKey
          /\ \A i \in DOMAIN pre.master : master_players[i] = pre.master[i]
          /\ IF IdOf(LastRow) # <<>> THEN LastKey = IdOf(LastRow)
             ELSE IsFreshSlug(LastKey, pre.master, LastRow)
  /\ (N >= 1 /\ ~last.created) => Len(master_players) = Len(pre.master)

\* an entity was created under a slug that collided and got a suffix
C7_Witness ==
  /\ N >= 1 /\ last.created /\ IdOf(LastRow) = <<>>
  /\ DictHas(pre.master, Slugify(Strip(Lower(Strip(DisplayNameOf(LastRow))))))
  /\ ~DictHas(pre.master, LastKey)

(***************************************************************************)
(* C8.  Name-index invariant.                                              *)
(***************************************************************************)
\* C8 as claimed: the name index maps the normalized canonical name of every
\* entity that has one to that entity's own key.
C8_IndexPointsBack ==
  \A i \in DOMAIN master_players :
    LET name == master_players[i].val.identitas_dasar.nama_lengkap IN
      name # <<>>
        => /\ normalize(name) \in DOMAIN name_to_master_key
           /\ name_to_master_key[normalize(name)] = master_players[i].key

\* C8 as amended: the name index contains the normalized canonical name of every
\* entity that has one and maps it to the key of an entity of the store; it
\* maps it to the entity's own key for the entity the last ingest returned
\* (of several entities carrying the same normalized name only the one
\* ingested last is indexed).
C8_IndexPresent ==
  /\ \A i \in DOMAIN master_players :
       LET name == master_players[i].val.identitas_dasar.nama_lengkap IN
         name # <<>>
           => /\ normalize(name) \in DOMAIN name_to_master_key
              /\ DictHas(master_players, name_to_master_key[normalize(name)])
  /\ (N >= 1 /\ Entity(LastKey).identitas_dasar.nama_lengkap # <<>>)
       => name_to_master_key[normalize(Entity(LastKey).identitas_dasar.nama_lengkap)]
            = LastKey

\* two entities carry the same non-empty normalized name and the index maps it
\* to the one ingested last
C8_Witness ==
  /\ N >= 1
  /\ \E i \in DOMAIN master_players :
       /\ master_players[i].key # LastKey
       /\ master_players[i].val.identitas_dasar.nama_lengkap # <<>>
       /\ normalize(master_players[i].val.identitas_dasar.nama_lengkap) # <<>>
       /\ normalize(master_players[i].val.identitas_dasar.nama_lengkap)
            = normalize(Entity(LastKey).identitas_dasar.nama_lengkap)
       /\ name_to_master_key[normalize(master_players[i].val.identitas_dasar.nama_lengkap)]
            = LastKey

(***************************************************************************)
(* C9.  Name registration on ingest.                                       *)
(***************************************************************************)
\* C9 as claimed: after the ingest of a row with a non-empty display name the
\* name index maps the normalized display name to the returned key and the
\* canonical name of that entity is the display name.
C9_NameRegistered ==
  (N >= 1 /\ DisplayNameOf(LastRow) # <<>>)
    => /\ normalize(DisplayNameOf(LastRow)) \in DOMAIN name_to_master_key
       /\ name_to_master_key[normalize(DisplayNameOf(LastRow))] = LastKey
       /\ Entity(LastKey).identitas_dasar.nama_lengkap = DisplayNameOf(LastRow)

(***************************************************************************)
(* C10.  Rows without identity.                                            *)
(***************************************************************************)
\* C10 as claimed: a row with neither a non-empty id nor a non-empty name
\* creates a new entity under a fresh key player_<n>, is never merged into an
\* existing entity, and its other fields are merged into the new entity.
C10_Placeholder ==
  (N >= 1 /\ IdOf(LastRow) = <<>> /\ DisplayNameOf(LastRow) = <<>>)
    => /\ last.created
       /\ ~DictHas(pre.master, LastKey)
       /\ \E n \in 1..(Len(pre.master) + 1) : LastKey = T_player_ \o Decimal(n)
       /\ Len(master_players) = Len(pre.master) + 1
       /\ \A f \in IdentitasSources \ {<<"kewarganegaraan", {"citizenship", "nationality"}>>} :
            \A c \in f[2] :
              (c \in DOMAIN LastRow /\ LastRow[c] # <<>>)
                => Entity(LastKey).identitas_dasar[f[1]] = LastRow[c]

(***************************************************************************)
(* C11.  Edit-distance fallback.                                           *)
(***************************************************************************)
\* C11: with the default thresholds, when no candidate matches the query
\* exactly and no token-overlap score reaches 0.6, best_name_match returns a
\* candidate iff the greatest edit-distance ratio 1 - dist/max(len) of the
\* normalized strings is >= 0.78, and then one of greatest ratio.  "Jon
\* Smith" has token overlap 1/3 and ratio 9/10 with "John Smith", which is
\* returned when it is the only candidate, and token overlap 0 and ratio 9/17
\* with "Jonathan Smithson", which is not.
C11_EditDistanceFallback ==
  LET c == last.bnm.candidates
      n == normalize(last.bnm.name)
      tok(i) == token_overlap_score(n, c[i].val)
      lev(i) == levenshtein_ratio(n, c[i].val)
      undecided == /\ last.bnm.called
                   /\ \A i \in DOMAIN c : normalize(c[i].val) # n
                   /\ \A i \in DOMAIN c : 10 * tok(i)[1] < 6 * tok(i)[2]
  IN /\ undecided
          => /\ (last.bnm.result # None)
                   <=> (\E i \in DOMAIN c : 100 * lev(i)[1] >= 78 * lev(i)[2])
             /\ last.bnm.result # None
                   => \E i \in DOMAIN c :
                        /\ c[i].key = last.bnm.result
                        /\ \A j \in DOMAIN c : lev(i)[1] * lev(j)[2] >= lev(j)[1] * lev(i)[2]
     /\ (last.bnm.called /\ last.bnm.name = T_JonSmith)
          => \A i \in DOMAIN c :
               /\ c[i].val = T_JohnSmith
                    => tok(i) = <<1, 3>> /\ lev(i) = <<9, 10>>
               /\ c[i].val = T_JonathanSmithson
                    => tok(i) = <<0, 4>> /\ lev(i) = <<9, 17>>
     /\ (last.bnm.called /\ last.bnm.name = T_JonSmith /\ Len(c) = 1)
          => /\ c[1].val = T_JohnSmith => last.bnm.result = c[1].key
             /\ c[1].val = T_JonathanSmithson => last.bnm.result = None

\* "Jon Smith" was matched against "Jonathan Smithson" and "John Smith", in
\* this order, and the key of "John Smith" was returned
C11_Witness ==
  /\ last.bnm.called
  /\ last.bnm.name = T_JonSmith
  /\ Len(last.bnm.candidates) = 2
  /\ last.bnm.candidates[1].val = T_JonathanSmithson
  /\ last.bnm.candidates[2].val = T_JohnSmith
  /\ last.bnm.result = last.bnm.candidates[2].key

(***************************************************************************)
(* C12.  Normal form of normalize.                                         *)
(***************************************************************************)
\* the text s without its punctuation characters
WithoutPunct(s) == SelectSeq(s, LAMBDA ch : ch \in WordChars \cup SpaceChars)

\* C12 as claimed: the result of normalize is lowercase, made of letters,
\* digits, underscores and single spaces, with no two consecutive whitespace
\* characters and no leading or trailing whitespace; normalize applied to it
\* returns it; and the text without its punctuation normalizes to it as well.
C12_NormalForm ==
  norm.called
    => LET r == norm.result IN
         /\ \A i \in DOMAIN r : r[i] \in (WordChars \ Range(UpperCase)) \cup {" "}
         /\ \A i \in 1..(Len(r) - 1) : ~(r[i] \in SpaceChars /\ r[i + 1] \in SpaceChars)
         /\ r # <<>> => r[1] \notin SpaceChars /\ r[Len(r)] \notin SpaceChars
         /\ normalize(r) = r
         /\ normalize(WithoutPunct(norm.s)) = r

(***************************************************************************)
(* C13.  Frame of an ingest.                                               *)
(***************************************************************************)
\* C13: one call of add_or_merge_player changes at most the record under the
\* key it returns and at most the name-index entry of that record's normalized
\* canonical name: every other entity keeps its key, its place, its fields and
\* its provenance, no entity but the returned one is added, and every other
\* name-index entry is as before.
C13_Frame ==
  N >= 1
    => LET name == normalize(Entity(LastKey).identitas_dasar.nama_lengkap) IN
         /\ Len(master_players) >= Len(pre.master)
         /\ \A i \in DOMAIN pre.master :
              /\ master_players[i].key = pre.master[i].key
              /\ pre.master[i].key # LastKey => master_players[i].val = pre.master[i].val
         /\ \A i \in DOMAIN master_players :
              i > Len(pre.master) => master_players[i].key = LastKey
         /\ DOMAIN pre.names \subseteq DOMAIN name_to_master_key
         /\ DOMAIN name_to_master_key \subseteq DOMAIN pre.names \cup {name}
         /\ \A x \in DOMAIN pre.names :
              x # name => name_to_master_key[x] = pre.names[x]
         /\ Entity(LastKey).identitas_dasar.nama_lengkap = <<>>
              => name_to_master_key = pre.names

\* a row was merged into one of two entities, changed its record and moved a
\* name-index entry from another entity to it
C13_Witness ==
  /\ N >= 1 /\ ~last.created
  /\ Len(pre.master) = 2
  /\ Entity(LastKey) # PreEntity(LastKey)
  /\ \E x \in DOMAIN pre.names :
       pre.names[x] # LastKey /\ name_to_master_key[x] = LastKey

(***************************************************************************)
(* C14.  Frame of the injuries phase.                                      *)
(***************************************************************************)
\* the number of injury rows merged, the last of them, its target_key
NI == Len(injuries_rows)
LastInjury == injuries_rows[NI]
LastTarget == target_keys[NI]

\* the player an injury row is for: the one under its player_id if the store
\* has it, else the one the name index has under its normalized name, else
\* the one best_name_match finds for its name, else none
PlayerOf(inj) ==
  LET pid == IF "player_id" \in DOMAIN inj THEN inj["player_id"] ELSE <<>>
      name == Strip(DisplayNameOf(inj))
  IN IF pid # <<>> /\ DictHas(pre.master, pid) THEN pid
     ELSE IF name = <<>> THEN None
     ELSE IF normalize(name) \in DOMAIN pre.names THEN pre.names[normalize(name)]
     ELSE best_name_match(name, CandidateNames(pre.master),
                          token_thresh_default, lev_thresh_default)

\* C14: the injuries phase begins only after the load loop has ended; merging
\* an injury row leaves the name index, the keys and their order as they were,
\* and either appends exactly one entry to the injuries of the player the row
\* is for, changing nothing else of that player and nothing of any other, or,
\* when the row is for no player, changes nothing; the keys during the
\* injuries phase are those at its beginning.
C14_InjuryFrame ==
  /\ ~candidates.defined => injuries_rows = <<>>
  /\ candidates.defined
       => /\ [i \in DOMAIN master_players |-> master_players[i].key]
               = [i \in DOMAIN candidates.dict |-> candidates.dict[i].key]
          /\ \A i \in DOMAIN candidates.dict :
               candidates.dict[i].val = master_players[i].val.identitas_dasar.nama_lengkap
          /\ Len(returned) = Len(players_rows)
  /\ NI >= 1
       => /\ name_to_master_key = pre.names
          /\ Len(master_players) = Len(pre.master)
          /\ LastTarget = PlayerOf(LastInjury)
          /\ \A i \in DOMAIN pre.master :
               /\ master_players[i].key = pre.master[i].key
               /\ master_players[i].key # LastTarget
                    => master_players[i].val = pre.master[i].val
               /\ master_players[i].key = LastTarget
                    => /\ Len(master_players[i].val.cedera)
                            = Len(pre.master[i].val.cedera) + 1
                       /\ [master_players[i].val EXCEPT !.cedera = pre.master[i].val.cedera]
                            = pre.master[i].val
                       /\ SubSeq(master_players[i].val.cedera, 1,
                                 Len(pre.master[i].val.cedera))
                            = pre.master[i].val.cedera
          /\ LastTarget = None => master_players = pre.master

\* an injury row with the id of one player and the name of another was merged
\* into the first, after an injury row that was for no player
C14_Witness ==
  /\ NI >= 2
  /\ target_keys[NI - 1] = None
  /\ LastTarget = T_7
  /\ normalize(DisplayNameOf(LastInjury)) \in DOMAIN pre.names
  /\ pre.names[normalize(DisplayNameOf(LastInjury))] # T_7
  /\ Len(Entity(T_7).cedera) = 1

=============================================================================
